---- MODULE Spec2Model ----
(***************************************************************************)
(* Ledger of the building owners' association: the Firestore collections   *)
(* (floors, events, eventPayments, monthlyPayments, expenses and the two    *)
(* singleton documents system/balance and system/monthlyDuePayment) and    *)
(* the admin modals that read and write them.  Money is modelled as        *)
(* integers; the input 0 stands for every input the handlers reject as     *)
(* "not a positive number" (empty, NaN, zero, negative).                   *)
(***************************************************************************)
EXTENDS Integers, FiniteSets, Sequences, TLC

\* ------------------------------------------------------------------ bounds
MaxAmount == 2
MaxFloors == 2
MaxClock == 2
MaxCallbacks == 4

Sessions == {1, 2}
SeqSessions == {1}
Months == {1, 2}
EventIds == {1, 2}
DocIds == 1..(MaxClock + 1)
AmountInputs == 0..MaxAmount
\* the monthly form also receives an amount above the configured monthly amount
MonthlyInputs == 0..(MaxAmount + 1)
CostInputs == {0, MaxAmount + 1}
FloorCounts == {0, MaxFloors}

\* The IEEE value Math.ceil(x / 0) yields for x > 0; larger than every amount.
Infinity == 1000000

VARIABLES
  floors,           \* number of documents in collection "floors"
  required,         \* system/monthlyDuePayment.required
  events,           \* collection "events"
  monthlyPayments,  \* collection "monthlyPayments"
  eventPayments,    \* collection "eventPayments", in the order getDocs returns it
  expenses,         \* collection "expenses"
  balance,          \* system/balance: [exists, totalBalance]
  clock,            \* wall clock used for paymentDate / date
  ui,               \* per admin session: the mounted modal and its React state
  last,             \* history: the last ledger handler that ran and what it saw
  dashboard,        \* AdminDashboard: the React state its snapshot listeners keep
  guard             \* useAuthGuard / AuthGuard: the hook's state, ref and effect

dbVars == <<floors, required, events, monthlyPayments, eventPayments, expenses, balance>>
pageVars == <<dashboard, guard>>
vars == <<floors, required, events, monthlyPayments, eventPayments, expenses, balance, clock, ui, last,
          dashboard, guard>>

\* ----------------------------------------------------------------- helpers
\* reduce((sum, doc) => sum + (doc.data().amountPaid || 0), 0)
RECURSIVE SumAmountPaid(_)
SumAmountPaid(S) ==
  IF S = {} THEN 0
  ELSE LET x == CHOOSE y \in S : TRUE IN x.amountPaid + SumAmountPaid(S \ {x})

\* reduce((sum, doc) => sum + (doc.data().amount || 0), 0)
RECURSIVE SumAmount(_)
SumAmount(S) ==
  IF S = {} THEN 0
  ELSE LET x == CHOOSE y \in S : TRUE IN x.amount + SumAmount(S \ {x})

\* getDocs(collection(...)) without orderBy returns the documents by document
\* id, and addDoc draws that id at random: a new document may land at any
\* position of the result
InsertAt(seq, pos, x) == SubSeq(seq, 1, pos) \o <<x>> \o SubSeq(seq, pos + 1, Len(seq))

SeqToSet(seq) == {seq[i] : i \in 1..Len(seq)}

\* a - b on JS numbers where a may be Infinity
JsSub(a, b) == IF a = Infinity THEN Infinity ELSE a - b

NoPayment == [id |-> 0, type |-> "none", collectionName |-> "none",
              amountPaid |-> 0, originalAmount |-> 0, month |-> 0]

\* the handler of a session that is between two awaits: phase "none" when no
\* handler is running, "added" once addDoc has resolved, "read" once the
\* getDoc of system/balance has resolved with the value in read; delta is the
\* amount the handler will add to the balance it read
NoPending == [phase |-> "none", delta |-> 0,
              read |-> [exists |-> FALSE, totalBalance |-> 0]]

\* React state of a session with no modal mounted (the useState initial values)
Unmounted ==
  [modalType |-> "none", step |-> "none",
   floors |-> 0, events |-> {}, existingPayments |-> << >>,
   monthlyDueAmount |-> 0, financialData |-> 0,
   payments |-> {}, editingPaymentId |-> 0, deleteConfirmPayment |-> NoPayment,
   editingEventId |-> 0, deleteConfirmEvent |-> 0,
   expenseType |-> "monthly", selectedEvent |-> 0, amount |-> 0, totalCost |-> 0,
   selectedFloor |-> 0, pending |-> NoPending]

\* History record: op the handler, ok whether it passed validation and wrote,
\* id the record or event it was about, amount the submitted amount, old the
\* amountPaid the store held for that record before, used the remaining amount
\* (or ceiling) the handler validated against, req / n / due the required
\* amount, the number of payment records and the amount still due for the key
\* in the store before the handler ran, bal the stored totalBalance before,
\* pay / exp the sums of the event's payments and expenses before a delete,
\* complete whether every required field other than the amount was filled in,
\* sel the event selected in the expense form when the expense was submitted.
Idle == [op |-> "none", ok |-> FALSE, id |-> 0, amount |-> 0, old |-> 0,
         used |-> 0, due |-> 0, n |-> 0, bal |-> 0, req |-> 0, pay |-> 0, exp |-> 0,
         complete |-> TRUE, sel |-> 0]

\* balanceDoc.data()?.totalBalance || 0
ReadBalance == IF balance.exists THEN balance.totalBalance ELSE 0

\* collectedAmount of a MaintenanceEvent that carries no such field
Undefined == -1

\* AdminDashboard before any snapshot callback: useState([]) for
\* maintenanceEvents; eventsSnapshot / paymentsSnapshot are the collections the
\* two listeners delivered last (arrived FALSE before the first callback)
DashboardUnloaded ==
  [maintenanceEvents |-> {},
   eventsSnapshot |-> [arrived |-> FALSE, docs |-> {}],
   paymentsSnapshot |-> [arrived |-> FALSE, docs |-> << >>]]

\* useAuthGuard after the first render of AuthGuard on a protected path, before
\* its effect has run: useState(null), useRef(false).  effectRan tells whether
\* the effect has run, isMounted is the flag of the effect run that holds the
\* current subscription (FALSE when there is none), stale whether an earlier,
\* cleaned-up subscription exists, pushes counts the calls of
\* router.push(redirectPath), callbacks the callbacks delivered, callback is the
\* kind of the callback delivered last and rendered what AuthGuard returns.
GuardUnchecked ==
  [isAuthenticated |-> "null", isRedirectingRef |-> FALSE, isPublicPath |-> FALSE,
   mounted |-> TRUE, effectRan |-> FALSE, isMounted |-> FALSE, stale |-> FALSE,
   pushes |-> 0, callbacks |-> 0, callback |-> "none", rendered |-> "spinner"]

\* ------------------------------------------------------------------- Init
Init ==
  /\ floors \in FloorCounts
  /\ required = MaxAmount
  /\ events = {}
  /\ monthlyPayments = {}
  /\ eventPayments = << >>
  /\ expenses = {}
  /\ balance = [exists |-> TRUE, totalBalance |-> 0]
  /\ clock = 0
  /\ ui = [s \in Sessions |-> Unmounted]
  /\ last = Idle
  /\ dashboard = DashboardUnloaded
  /\ guard = GuardUnchecked

\* ------------------------------------------------- store-side definitions
AllPayments == monthlyPayments \cup SeqToSet(eventPayments)
FreeEventIds == EventIds \ {e.id : e \in events}

MonthlyKey(floorId, month) == {p \in monthlyPayments : p.floorId = floorId /\ p.month = month}
EventKey(eventId, floorId) == {p \in SeqToSet(eventPayments) : p.eventId = eventId /\ p.floorId = floorId}

\* costPerFloor the store holds for an event (0 when the event is gone)
StoredCostPerFloor(eventId) ==
  IF \E e \in events : e.id = eventId
  THEN (CHOOSE e \in events : e.id = eventId).costPerFloor
  ELSE 0

\* updateDoc(doc(db, "system", "balance"), {totalBalance: v}) on an existing document
WriteBalance(v) == [exists |-> TRUE, totalBalance |-> v]

\* variant of CreditIfExists that leaves the balance as it is
CreditIfExistsSkipped(delta) == balance

\* if (balanceDoc.exists()) updateDoc(... currentBalance + delta)
CreditIfExists(delta) ==
  IF balance.exists THEN WriteBalance(balance.totalBalance + delta) ELSE balance

\* --------------------------------------------------- modal mount and load
OpenEvents == {e \in events : e.status = "open"}

\* ManagePaymentsModal.loadPayments: one Payment per stored payment document
LoadPayments ==
  {[id |-> p.id, type |-> "monthly", collectionName |-> "monthlyPayments",
    amountPaid |-> p.amountPaid, originalAmount |-> p.amountPaid, month |-> p.month]
     : p \in monthlyPayments}
  \cup
  {[id |-> p.id, type |-> "event", collectionName |-> "eventPayments",
    amountPaid |-> p.amountPaid, originalAmount |-> p.amountPaid, month |-> 0]
     : p \in SeqToSet(eventPayments)}

\* the state a modal has once its load effect has run
Loaded(m) ==
  CASE m = "monthly-payment" ->
         [Unmounted EXCEPT !.modalType = m, !.step = "select-floor",
                           !.floors = floors, !.monthlyDueAmount = required]
    [] m = "new-maintenance" ->
         [Unmounted EXCEPT !.modalType = m, !.step = "details", !.floors = floors]
    [] m = "maintenance-payment" ->
         [Unmounted EXCEPT !.modalType = m, !.step = "select-event",
                           !.floors = floors, !.events = OpenEvents,
                           !.existingPayments = eventPayments]
    [] m = "expense" ->
         [Unmounted EXCEPT !.modalType = m, !.step = "type",
                           !.events = OpenEvents, !.financialData = ReadBalance]
    [] m = "manage-maintenance" ->
         [Unmounted EXCEPT !.modalType = m, !.events = events]
    [] m = "manage-payments" ->
         [Unmounted EXCEPT !.modalType = m, !.payments = LoadPayments,
                           !.financialData = ReadBalance]

ModalTypes == {"monthly-payment", "new-maintenance", "maintenance-payment",
               "expense", "manage-maintenance", "manage-payments"}

\* AdminDashboard.handleActionClick: mounts the modal, whose effect loads its data
handleActionClick(s, m) ==
  /\ ui[s].modalType = "none"
  /\ ui' = [ui EXCEPT ![s] = Loaded(m)]
  /\ last' = Idle
  /\ UNCHANGED <<pageVars, dbVars, clock>>

\* AdminDashboard.closeModal: renderModal returns null, the modal unmounts
closeModal(s) ==
  /\ ui[s].modalType # "none"
  /\ ui' = [ui EXCEPT ![s] = Unmounted]
  /\ last' = Idle
  /\ UNCHANGED <<pageVars, dbVars, clock>>

\* variant of IsComplete that needs an overpayment
IsCompleteStrict(remainingAmount) == remainingAmount < 0

\* const isComplete = remainingAmount <= 0 (newRemainingAmount <= 0)
IsComplete(remainingAmount) == remainingAmount <= 0

\* ---------------------------------------------------- MonthlyPaymentModal
\* variant of MonthlyRejected without the ceiling
MonthlyRejectedNoCeiling(amount, monthlyDueAmount) == amount <= 0

\* the validation of handlePaymentSubmit: TRUE when the amount is refused
MonthlyRejected(amount, monthlyDueAmount) ==
  amount <= 0 \/ amount > monthlyDueAmount

MonthlyPaymentSubmit(s, floorId, month, amount) ==
  LET m == ui[s]
      key == MonthlyKey(floorId, month)
      seen == [Idle EXCEPT !.op = "monthlyPayment", !.amount = amount,
                 !.used = m.monthlyDueAmount, !.req = required,
                 !.n = Cardinality(key), !.due = required - SumAmountPaid(key),
                 !.bal = balance.totalBalance]
  IN
  /\ m.modalType = "monthly-payment"
  /\ floorId \in 1..m.floors
  /\ IF MonthlyRejected(amount, m.monthlyDueAmount)
     THEN /\ last' = seen
          /\ UNCHANGED <<pageVars, dbVars, clock, ui>>
     ELSE /\ clock < MaxClock
          /\ LET remainingAmount == m.monthlyDueAmount - amount
             IN monthlyPayments' = monthlyPayments \cup
                  {[id |-> clock + 1, floorId |-> floorId, month |-> month,
                    amountPaid |-> amount, paymentDate |-> clock + 1,
                    remainingAmount |-> remainingAmount,
                    isComplete |-> IsComplete(remainingAmount)]}
          /\ balance' = CreditIfExists(amount)
          /\ clock' = clock + 1
          /\ ui' = [ui EXCEPT ![s] = Unmounted]
          /\ last' = [seen EXCEPT !.ok = TRUE]
          /\ UNCHANGED <<pageVars, floors, required, events, eventPayments, expenses>>

\* ------------------------------------------------ MaintenancePaymentModal
\* variant of getRequiredAmount that returns the event's whole cost
getRequiredAmountWholeCost(m, eventId) ==
  IF \E e \in m.events : e.id = eventId
  THEN (CHOOSE e \in m.events : e.id = eventId).totalCost
  ELSE 0

getRequiredAmount(m, eventId) ==
  IF \E e \in m.events : e.id = eventId
  THEN (CHOOSE e \in m.events : e.id = eventId).costPerFloor
  ELSE 0

\* existingPayments.find(...): the first matching record in load order
getRemainingAmount(m, eventId, floorId) ==
  LET hits == {i \in 1..Len(m.existingPayments) :
                 /\ m.existingPayments[i].eventId = eventId
                 /\ m.existingPayments[i].floorId = floorId}
  IN IF hits # {}
     THEN m.existingPayments[CHOOSE i \in hits : \A j \in hits : i <= j].remainingAmount
     ELSE getRequiredAmount(m, eventId)

\* variant of EventRejected that checks the ceiling only
EventRejectedCeilingOnly(amount, remainingAmount) == amount > remainingAmount

\* the validation of handlePaymentSubmit: TRUE when the amount is refused
EventRejected(amount, remainingAmount) ==
  amount <= 0 \/ amount > remainingAmount

\* limit caps the number of documents the run creates
EventPaymentSubmitUpTo(limit, s, eventId, floorId, amount) ==
  LET m == ui[s]
      key == EventKey(eventId, floorId)
      remainingAmount == getRemainingAmount(m, eventId, floorId)
      seen == [Idle EXCEPT !.op = "eventPayment", !.amount = amount,
                 !.used = remainingAmount, !.req = StoredCostPerFloor(eventId),
                 !.n = Cardinality(key),
                 !.due = JsSub(StoredCostPerFloor(eventId), SumAmountPaid(key)),
                 !.bal = balance.totalBalance]
  IN
  /\ m.modalType = "maintenance-payment"
  /\ \E e \in m.events : e.id = eventId
  /\ floorId \in 1..m.floors
  /\ IF EventRejected(amount, remainingAmount)
     THEN /\ last' = seen
          /\ UNCHANGED <<pageVars, dbVars, clock, ui>>
     ELSE /\ clock < limit
          /\ LET newRemainingAmount == JsSub(remainingAmount, amount)
             IN \E pos \in 0..Len(eventPayments) :
                  eventPayments' = InsertAt(eventPayments, pos,
                    [id |-> clock + 1, eventId |-> eventId, floorId |-> floorId,
                     amountPaid |-> amount, paymentDate |-> clock + 1,
                     remainingAmount |-> newRemainingAmount,
                     isComplete |-> IsComplete(newRemainingAmount)])
          /\ balance' = CreditIfExists(amount)
          /\ clock' = clock + 1
          /\ ui' = [ui EXCEPT ![s] = Unmounted]
          /\ last' = [seen EXCEPT !.ok = TRUE]
          /\ UNCHANGED <<pageVars, floors, required, events, monthlyPayments, expenses>>

EventPaymentSubmit(s, eventId, floorId, amount) ==
  EventPaymentSubmitUpTo(MaxClock, s, eventId, floorId, amount)

\* ------------------------------------------------------------ ExpenseModal
ExpenseTypes == {"monthly", "event"}

handleTypeSelect(s, type) ==
  /\ ui[s].modalType = "expense"
  /\ ui[s].step = "type"
  /\ ui' = [ui EXCEPT ![s].expenseType = type, ![s].step = "details"]
  /\ last' = Idle
  /\ UNCHANGED <<pageVars, dbVars, clock>>

\* variant of ExceedsBalance that also refuses an expense of the whole balance
ExceedsBalanceStrict(amountNum, totalBalance) == amountNum >= totalBalance

\* variant of ExceedsBalance without a ceiling
ExceedsBalanceNever(amountNum, totalBalance) == FALSE

\* the ceiling check of handleDetailsSubmit: TRUE when the amount is refused
ExceedsBalance(amountNum, totalBalance) == amountNum > totalBalance

\* selectedEvent and amount are the form fields at the time of the click
ExpenseDetailsSubmit(s, selectedEvent, amount) ==
  LET m == ui[s]
      missing == m.expenseType = "event" /\ selectedEvent = 0
      seen == [Idle EXCEPT !.op = "expenseDetails", !.amount = amount, !.used = m.financialData,
                 !.bal = balance.totalBalance, !.complete = ~missing]
  IN
  /\ m.modalType = "expense"
  /\ m.step = "details"
  /\ selectedEvent \in {0} \cup {e.id : e \in m.events}
  /\ IF missing \/ amount <= 0 \/ ExceedsBalance(amount, m.financialData)
     THEN /\ last' = seen
          /\ UNCHANGED <<pageVars, dbVars, clock, ui>>
     ELSE /\ ui' = [ui EXCEPT ![s].selectedEvent = selectedEvent,
                              ![s].amount = amount, ![s].step = "review"]
          /\ last' = [seen EXCEPT !.ok = TRUE]
          /\ UNCHANGED <<pageVars, dbVars, clock>>

\* the two "back" buttons: review -> details -> type.  The form fields are
\* editable again in the details step; the next click reads them afresh.
ExpenseBack(s) ==
  /\ ui[s].modalType = "expense"
  /\ ui[s].step \in {"details", "review"}
  /\ ui' = [ui EXCEPT ![s].step = IF @ = "review" THEN "details" ELSE "type",
                      ![s].selectedEvent = 0, ![s].amount = 0]
  /\ last' = Idle
  /\ UNCHANGED <<pageVars, dbVars, clock>>

\* variant of ExpenseEventId that stores the selected event for every type
ExpenseEventIdAsSelected(expenseType, selectedEvent) == selectedEvent

\* eventId: expenseType === "event" ? selectedEvent : null (0 stands for null)
ExpenseEventId(expenseType, selectedEvent) ==
  IF expenseType = "event" THEN selectedEvent ELSE 0

\* variant of ExpenseDelta in which an event expense leaves the shared balance
ExpenseDeltaMonthlyOnly(expenseType, amountNum) ==
  IF expenseType = "event" THEN 0 ELSE 0 - amountNum

\* totalBalance: currentBalance - amountNum, for both expense types
ExpenseDelta(expenseType, amountNum) == 0 - amountNum

handleExpenseSubmit(s) ==
  LET m == ui[s] IN
  /\ m.modalType = "expense"
  /\ m.step = "review"
  /\ clock < MaxClock
  /\ expenses' = expenses \cup
       {[id |-> clock + 1, type |-> m.expenseType,
         eventId |-> ExpenseEventId(m.expenseType, m.selectedEvent),
         amount |-> m.amount]}
  /\ balance' = CreditIfExists(ExpenseDelta(m.expenseType, m.amount))
  /\ clock' = clock + 1
  /\ ui' = [ui EXCEPT ![s] = Unmounted]
  /\ last' = [Idle EXCEPT !.op = "expense", !.ok = TRUE, !.id = clock + 1,
                 !.amount = m.amount, !.used = m.financialData,
                 !.bal = balance.totalBalance, !.sel = m.selectedEvent]
  /\ UNCHANGED <<pageVars, floors, required, events, monthlyPayments, eventPayments>>

\* ----------------------------------------------------- NewMaintenanceModal
\* Math.ceil(total / n) for a positive total
JsCeilDiv(total, n) ==
  IF n = 0 THEN Infinity ELSE (total + n - 1) \div n

calculateCostPerFloor(floorsLength, total) ==
  IF floorsLength = 0 THEN 0 ELSE JsCeilDiv(total, floorsLength)

NewEventDetailsSubmit(s, cost) ==
  /\ ui[s].modalType = "new-maintenance"
  /\ ui[s].step = "details"
  /\ IF cost <= 0
     THEN /\ last' = [Idle EXCEPT !.op = "newEventDetails", !.amount = cost]
          /\ UNCHANGED <<pageVars, dbVars, clock, ui>>
     ELSE /\ ui' = [ui EXCEPT ![s].totalCost = cost, ![s].step = "review"]
          /\ last' = [Idle EXCEPT !.op = "newEventDetails", !.ok = TRUE, !.amount = cost]
          /\ UNCHANGED <<pageVars, dbVars, clock>>

NewEventBack(s) ==
  /\ ui[s].modalType = "new-maintenance"
  /\ ui[s].step = "review"
  /\ ui' = [ui EXCEPT ![s].step = "details", ![s].totalCost = 0]
  /\ last' = Idle
  /\ UNCHANGED <<pageVars, dbVars, clock>>

handleCreateEvent(s) ==
  LET m == ui[s] IN
  /\ m.modalType = "new-maintenance"
  /\ m.step = "review"
  /\ FreeEventIds # {}
  /\ LET id == CHOOSE i \in FreeEventIds : \A j \in FreeEventIds : i <= j
     IN /\ events' = events \cup
             {[id |-> id, totalCost |-> m.totalCost,
               costPerFloor |-> calculateCostPerFloor(m.floors, m.totalCost),
               status |-> "open"]}
        /\ last' = [Idle EXCEPT !.op = "createEvent", !.ok = TRUE, !.id = id,
                       !.amount = m.totalCost]
  /\ ui' = [ui EXCEPT ![s] = Unmounted]
  /\ UNCHANGED <<pageVars, floors, required, monthlyPayments, eventPayments, expenses, balance, clock>>

\* -------------------------------------------------- ManageMaintenanceModal
Statuses == {"open", "closed"}

StartEditingEvent(s, eventId) ==
  /\ ui[s].modalType = "manage-maintenance"
  /\ \E e \in ui[s].events : e.id = eventId
  /\ ui' = [ui EXCEPT ![s].editingEventId = eventId]
  /\ last' = Idle
  /\ UNCHANGED <<pageVars, dbVars, clock>>

CancelEditingEvent(s) ==
  /\ ui[s].modalType = "manage-maintenance"
  /\ ui[s].editingEventId # 0
  /\ ui' = [ui EXCEPT ![s].editingEventId = 0]
  /\ last' = Idle
  /\ UNCHANGED <<pageVars, dbVars, clock>>

\* variant of PaymentsAfterEventEdit that recomputes remainingAmount and
\* isComplete of the edited event's payments from the new costPerFloor
PaymentsAfterEventEditReconciled(payments, eventId, costPerFloor) ==
  [i \in 1..Len(payments) |->
     IF payments[i].eventId = eventId
     THEN [payments[i] EXCEPT
             !.remainingAmount = JsSub(costPerFloor, payments[i].amountPaid),
             !.isComplete = (JsSub(costPerFloor, payments[i].amountPaid) <= 0)]
     ELSE payments[i]]

\* saveEvent writes the "events" document only: the payments stay as recorded
PaymentsAfterEventEdit(payments, eventId, costPerFloor) == payments

\* totalCost and status are the edit form fields at the time of the click
saveEvent(s, totalCost, status) ==
  LET m == ui[s]
      seen == [Idle EXCEPT !.op = "saveEvent", !.id = m.editingEventId, !.amount = totalCost]
  IN
  /\ m.modalType = "manage-maintenance"
  /\ m.editingEventId # 0
  /\ IF totalCost <= 0 \/ ~(\E e \in events : e.id = m.editingEventId)
     THEN \* validation error, or updateDoc throws on a missing document
          /\ last' = seen
          /\ UNCHANGED <<pageVars, dbVars, clock, ui>>
     ELSE /\ events' = {e \in events : e.id # m.editingEventId} \cup
             {[id |-> m.editingEventId, totalCost |-> totalCost,
               costPerFloor |-> JsCeilDiv(totalCost, floors),
               status |-> status]}
          /\ eventPayments' = PaymentsAfterEventEdit(eventPayments, m.editingEventId,
                                                     JsCeilDiv(totalCost, floors))
          /\ ui' = [ui EXCEPT ![s].events = events', ![s].editingEventId = 0]
          /\ last' = [seen EXCEPT !.ok = TRUE]
          /\ UNCHANGED <<pageVars, floors, required, monthlyPayments, expenses, balance, clock>>

ConfirmDeleteEvent(s, eventId) ==
  /\ ui[s].modalType = "manage-maintenance"
  /\ \E e \in ui[s].events : e.id = eventId
  /\ ui' = [ui EXCEPT ![s].deleteConfirmEvent = eventId]
  /\ last' = Idle
  /\ UNCHANGED <<pageVars, dbVars, clock>>

CancelDeleteEvent(s) ==
  /\ ui[s].modalType = "manage-maintenance"
  /\ ui[s].deleteConfirmEvent # 0
  /\ ui' = [ui EXCEPT ![s].deleteConfirmEvent = 0]
  /\ last' = Idle
  /\ UNCHANGED <<pageVars, dbVars, clock>>

\* where("eventId", "==", id) on eventPayments / expenses
PaymentsOfEvent(eventId) == {p \in SeqToSet(eventPayments) : p.eventId = eventId}
ExpensesOfEvent(eventId) == {x \in expenses : x.eventId = eventId}

\* variant of DeleteEventBalance that does not give the event's expenses back
DeleteEventBalancePaymentsOnly(currentBalance, totalPaymentsAmount, totalExpensesAmount) ==
  currentBalance - totalPaymentsAmount

\* currentBalance - totalPaymentsAmount + totalExpensesAmount
DeleteEventBalance(currentBalance, totalPaymentsAmount, totalExpensesAmount) ==
  currentBalance - totalPaymentsAmount + totalExpensesAmount

deleteEvent(s) ==
  LET m == ui[s]
      id == m.deleteConfirmEvent
      totalPaymentsAmount == SumAmountPaid(PaymentsOfEvent(id))
      totalExpensesAmount == SumAmount(ExpensesOfEvent(id))
      seen == [Idle EXCEPT !.op = "deleteEvent", !.id = id,
                 !.pay = totalPaymentsAmount, !.exp = totalExpensesAmount,
                 !.bal = balance.totalBalance]
  IN
  /\ m.modalType = "manage-maintenance"
  /\ id # 0
  /\ eventPayments' = SelectSeq(eventPayments, LAMBDA p : p.eventId # id)
  /\ expenses' = expenses \ ExpensesOfEvent(id)
  /\ events' = {e \in events : e.id # id}
  /\ IF balance.exists
     THEN /\ balance' = WriteBalance(DeleteEventBalance(ReadBalance,
                            totalPaymentsAmount, totalExpensesAmount))
          /\ ui' = [ui EXCEPT ![s].events = events', ![s].deleteConfirmEvent = 0]
          /\ last' = [seen EXCEPT !.ok = TRUE]
     ELSE \* updateDoc throws on the missing balance document, after the deletes
          /\ balance' = balance
          /\ ui' = ui
          /\ last' = seen
  /\ UNCHANGED <<pageVars, floors, required, monthlyPayments, clock>>

\* ---------------------------------------------------- ManagePaymentsModal
StartEditingPayment(s, paymentId) ==
  /\ ui[s].modalType = "manage-payments"
  /\ \E p \in ui[s].payments : p.id = paymentId
  /\ ui' = [ui EXCEPT ![s].editingPaymentId = paymentId]
  /\ last' = Idle
  /\ UNCHANGED <<pageVars, dbVars, clock>>

CancelEditingPayment(s) ==
  /\ ui[s].modalType = "manage-payments"
  /\ ui[s].editingPaymentId # 0
  /\ ui' = [ui EXCEPT ![s].editingPaymentId = 0]
  /\ last' = Idle
  /\ UNCHANGED <<pageVars, dbVars, clock>>

\* amountPaid the store holds for a payment document (0 when it is gone)
StoredAmountPaid(paymentId) ==
  IF \E p \in AllPayments : p.id = paymentId
  THEN (CHOOSE p \in AllPayments : p.id = paymentId).amountPaid
  ELSE 0

\* variant of BalanceChange that adds the new amount again
BalanceChangeReAdd(amount, paymentToEdit) == amount

\* const balanceChange = amount - paymentToEdit.originalAmount
BalanceChange(amount, paymentToEdit) == amount - paymentToEdit.originalAmount

\* amount and month are the edit form fields at the time of the click
savePayment(s, amount, month) ==
  LET m == ui[s]
      id == m.editingPaymentId
      found == \E p \in m.payments : p.id = id
      paymentToEdit == IF found THEN CHOOSE p \in m.payments : p.id = id ELSE NoPayment
      seen == [Idle EXCEPT !.op = "savePayment", !.id = id, !.amount = amount,
                 !.old = StoredAmountPaid(id), !.used = paymentToEdit.originalAmount,
                 !.bal = balance.totalBalance]
  IN
  /\ m.modalType = "manage-payments"
  /\ id # 0
  /\ IF \/ amount <= 0
        \/ ~found
        \/ ~(\E p \in AllPayments : p.id = id)
        \/ ~balance.exists
     THEN \* validation error, "Payment not found", or the batch fails as a whole
          /\ last' = seen
          /\ UNCHANGED <<pageVars, dbVars, clock, ui>>
     ELSE /\ monthlyPayments' =
               {IF p.id = id THEN [p EXCEPT !.amountPaid = amount, !.month = month] ELSE p
                  : p \in monthlyPayments}
          /\ eventPayments' =
               [i \in 1..Len(eventPayments) |->
                  IF eventPayments[i].id = id
                  THEN [eventPayments[i] EXCEPT !.amountPaid = amount]
                  ELSE eventPayments[i]]
          /\ balance' = WriteBalance(ReadBalance + BalanceChange(amount, paymentToEdit))
          /\ ui' = [ui EXCEPT ![s].editingPaymentId = 0,
                              ![s].payments = LoadPayments',
                              ![s].financialData = ReadBalance']
          /\ last' = [seen EXCEPT !.ok = TRUE]
          /\ UNCHANGED <<pageVars, floors, required, events, expenses, clock>>

confirmDelete(s, paymentId) ==
  /\ ui[s].modalType = "manage-payments"
  /\ \E p \in ui[s].payments : p.id = paymentId
  /\ ui' = [ui EXCEPT ![s].deleteConfirmPayment =
                          CHOOSE p \in ui[s].payments : p.id = paymentId]
  /\ last' = Idle
  /\ UNCHANGED <<pageVars, dbVars, clock>>

cancelDelete(s) ==
  /\ ui[s].modalType = "manage-payments"
  /\ ui[s].deleteConfirmPayment # NoPayment
  /\ ui' = [ui EXCEPT ![s].deleteConfirmPayment = NoPayment]
  /\ last' = Idle
  /\ UNCHANGED <<pageVars, dbVars, clock>>

deletePayment(s) ==
  LET m == ui[s]
      id == m.deleteConfirmPayment.id
      seen == [Idle EXCEPT !.op = "deletePayment", !.id = id,
                 !.old = StoredAmountPaid(id),
                 !.used = m.deleteConfirmPayment.amountPaid,
                 !.bal = balance.totalBalance]
  IN
  /\ m.modalType = "manage-payments"
  /\ m.deleteConfirmPayment # NoPayment
  /\ IF ~balance.exists
     THEN \* batch.update on the missing balance document fails the whole batch
          /\ last' = seen
          /\ UNCHANGED <<pageVars, dbVars, clock, ui>>
     ELSE /\ monthlyPayments' = {p \in monthlyPayments : p.id # id}
          /\ eventPayments' = SelectSeq(eventPayments, LAMBDA p : p.id # id)
          /\ balance' = WriteBalance(ReadBalance - m.deleteConfirmPayment.amountPaid)
          /\ ui' = [ui EXCEPT ![s].deleteConfirmPayment = NoPayment,
                              ![s].payments = LoadPayments',
                              ![s].financialData = ReadBalance']
          /\ last' = [seen EXCEPT !.ok = TRUE]
          /\ UNCHANGED <<pageVars, floors, required, events, expenses, clock>>

\* ------------------------------------------------------- the specification
SessionStep(s) ==
  \/ \E m \in ModalTypes : handleActionClick(s, m)
  \/ closeModal(s)
  \/ \E f \in 1..MaxFloors, mo \in Months, a \in MonthlyInputs :
       MonthlyPaymentSubmit(s, f, mo, a)
  \/ \E e \in EventIds, f \in 1..MaxFloors, a \in AmountInputs :
       EventPaymentSubmit(s, e, f, a)
  \/ \E t \in ExpenseTypes : handleTypeSelect(s, t)
  \/ \E e \in {0} \cup EventIds, a \in AmountInputs : ExpenseDetailsSubmit(s, e, a)
  \/ ExpenseBack(s)
  \/ handleExpenseSubmit(s)
  \/ \E c \in CostInputs : NewEventDetailsSubmit(s, c)
  \/ NewEventBack(s)
  \/ handleCreateEvent(s)
  \/ \E e \in EventIds : StartEditingEvent(s, e)
  \/ CancelEditingEvent(s)
  \/ \E c \in CostInputs, st \in Statuses : saveEvent(s, c, st)
  \/ \E e \in EventIds : ConfirmDeleteEvent(s, e)
  \/ CancelDeleteEvent(s)
  \/ deleteEvent(s)
  \/ \E p \in DocIds : StartEditingPayment(s, p)
  \/ CancelEditingPayment(s)
  \/ \E a \in AmountInputs, mo \in Months : savePayment(s, a, mo)
  \/ \E p \in DocIds : confirmDelete(s, p)
  \/ cancelDelete(s)
  \/ deletePayment(s)

Next == \E s \in SeqSessions : SessionStep(s)

Spec == Init /\ [][Next]_vars

\* One session that only creates events and records event payments, with room
\* for one more payment record than Spec.
EventPaymentStep(s) ==
  \/ \E m \in {"new-maintenance", "maintenance-payment"} : handleActionClick(s, m)
  \/ closeModal(s)
  \/ \E c \in CostInputs : NewEventDetailsSubmit(s, c)
  \/ NewEventBack(s)
  \/ handleCreateEvent(s)
  \/ \E e \in EventIds, f \in 1..MaxFloors, a \in AmountInputs :
       EventPaymentSubmitUpTo(MaxClock + 1, s, e, f, a)

NextEventPayments == \E s \in SeqSessions : EventPaymentStep(s)

SpecEventPayments == Init /\ [][NextEventPayments]_vars

\* ------------------------------------------------------------------ claims
LiveCredit == SumAmountPaid(AllPayments)
LiveDebit == SumAmount(expenses)

\* C1: after any sequence of completed ledger operations issued one at a time,
\* totalBalance equals the sum of the live payments' current amounts minus the
\* sum of the live expenses' amounts.
C1_BalanceReconstruction ==
  balance.totalBalance = LiveCredit - LiveDebit

\* C2: a monthly payment submission whose amount exceeds what is still due for
\* its (floor, month), the required amount minus the payments already recorded
\* for that key, is rejected.
C2_NoOverpaymentMonthly ==
  (last.op = "monthlyPayment" /\ last.amount > last.due) => ~last.ok

\* C3: an event payment submission whose amount exceeds what is still due for
\* its (event, floor), costPerFloor minus the payments already recorded for
\* that key, is rejected, whatever the number and store order of prior records.
C3_NoOverpaymentEvent ==
  (last.op = "eventPayment" /\ last.amount > last.due) => ~last.ok

\* the record of a non-empty key that was written last
Latest(key) == CHOOSE p \in key : \A q \in key : q.paymentDate <= p.paymentDate

\* C4: for every (floor, month) and every (event, floor) with at least one
\* payment record, the remainingAmount on the most recently written record of
\* the key equals the required amount minus the sum of amountPaid over all
\* records of the key.
C4_LatestRemaining ==
  /\ \A f \in 1..MaxFloors, mo \in Months :
       MonthlyKey(f, mo) # {} =>
         Latest(MonthlyKey(f, mo)).remainingAmount
           = required - SumAmountPaid(MonthlyKey(f, mo))
  /\ \A e \in events, f \in 1..MaxFloors :
       EventKey(e.id, f) # {} =>
         Latest(EventKey(e.id, f)).remainingAmount
           = JsSub(e.costPerFloor, SumAmountPaid(EventKey(e.id, f)))

\* C5: an expense submission with its fields filled in is rejected when its
\* amount exceeds the current totalBalance and accepted when 0 < amount <=
\* totalBalance; a rejected one writes no record and leaves the balance, an
\* accepted one writes one expense record and lowers totalBalance by its
\* amount (an expense of the whole balance leaves 0).
C5_ExpenseCeiling ==
  /\ []((last.op = "expenseDetails" /\ last.complete) =>
          (last.ok <=> (0 < last.amount /\ last.amount <= last.bal)))
  /\ [](last.op = "expense" =>
          /\ last.amount <= last.bal
          /\ balance.totalBalance = last.bal - last.amount
          /\ \E x \in expenses : x.id = last.id /\ x.amount = last.amount)
  /\ [][(last'.op = "expenseDetails" /\ ~last'.ok) =>
          (expenses' = expenses /\ balance' = balance)]_vars
  /\ [][last'.op = "expense" => Cardinality(expenses') = Cardinality(expenses) + 1]_vars

C5_Witness ==
  /\ last.op = "expense"
  /\ last.bal > 0
  /\ last.amount = last.bal
  /\ balance.totalBalance = 0

\* n * costPerFloor >= totalCost on JS numbers (Infinity * 0 is NaN, and every
\* comparison with NaN is false)
CoversTotalCost(costPerFloor, n, totalCost) ==
  IF costPerFloor = Infinity THEN n > 0 ELSE costPerFloor * n >= totalCost

\* C6: every stored event has costPerFloor = ceil(totalCost / floorCount) for
\* the current number of floors, and costPerFloor * floorCount >= totalCost,
\* for every floor count the store can hold, 0 included.
C6_CeilingAllocation ==
  \A e \in events :
    /\ e.costPerFloor = JsCeilDiv(e.totalCost, floors)
    /\ CoversTotalCost(e.costPerFloor, floors, e.totalCost)

\* C7: deleting event E changes totalBalance by -(sum of amountPaid of E's
\* payments) + (sum of amount of E's expenses), removes E with all of E's
\* payments and expenses, and leaves every monthly payment, every monthly
\* expense and every record of another event unchanged.
C7_CascadingDelete ==
  [][(last'.op = "deleteEvent" /\ last'.ok) =>
       LET E == last'.id
           paid == SumAmountPaid({p \in SeqToSet(eventPayments) : p.eventId = E})
           spent == SumAmount({x \in expenses : x.type = "event" /\ x.eventId = E})
       IN /\ balance'.totalBalance = balance.totalBalance - paid + spent
          /\ events' = {e \in events : e.id # E}
          /\ eventPayments' = SelectSeq(eventPayments, LAMBDA p : p.eventId # E)
          /\ expenses' = {x \in expenses : ~(x.type = "event" /\ x.eventId = E)}
          /\ monthlyPayments' = monthlyPayments
          /\ UNCHANGED <<floors, required>>]_vars

C7_Witness ==
  /\ last.op = "deleteEvent"
  /\ last.ok
  /\ last.pay > 0
  /\ last.exp > 0
  /\ last.pay # last.exp
  /\ balance.totalBalance = last.bal - last.pay + last.exp
  /\ events # {}

\* C8: editing a payment (monthly or event) from oldAmount to newAmount changes
\* totalBalance by exactly newAmount - oldAmount and sets the record's
\* amountPaid to newAmount.
C8_EditDelta ==
  (last.op = "savePayment" /\ last.ok) =>
    /\ balance.totalBalance = last.bal + (last.amount - last.old)
    /\ StoredAmountPaid(last.id) = last.amount

C8_Witness ==
  /\ last.op = "savePayment"
  /\ last.ok
  /\ last.old = 1
  /\ last.amount = 2
  /\ balance.totalBalance = last.bal + 1

\* C9: deleting a payment (monthly or event) removes that record and lowers
\* totalBalance by exactly the amountPaid the record holds in the store.
C9_DeletePayment ==
  (last.op = "deletePayment" /\ last.ok) =>
    /\ balance.totalBalance = last.bal - last.old
    /\ ~(\E p \in AllPayments : p.id = last.id)

\* C10: for a key with no payment record, the remaining amount a submission is
\* validated against equals the required amount: the configured monthly amount
\* for (floor, month), the event's costPerFloor for (event, floor).
C10_RemainingWithoutRecords ==
  (last.op \in {"monthlyPayment", "eventPayment"} /\ last.n = 0) =>
    last.used = last.req

C10_Witness ==
  /\ last.op = "eventPayment"
  /\ last.ok
  /\ last.n = 0
  /\ last.req > 0
  /\ last.used = last.req

\* ------------------------------------------- handlers, await by await
\* The submit handlers of the payment and expense modals run three awaits:
\* addDoc of the record, getDoc of system/balance, updateDoc of system/balance.
\* Another session's step may run between two of them.

\* loading is true, the buttons of the modal are disabled
Running(s) == ui[s].pending.phase # "none"

\* MonthlyPaymentModal.handlePaymentSubmit up to the resolved addDoc
MonthlyAddDoc(limit, s, floorId, month, amount) ==
  LET m == ui[s] IN
  /\ m.modalType = "monthly-payment"
  /\ ~Running(s)
  /\ floorId \in 1..m.floors
  /\ ~MonthlyRejected(amount, m.monthlyDueAmount)
  /\ clock < limit
  /\ LET remainingAmount == m.monthlyDueAmount - amount
     IN monthlyPayments' = monthlyPayments \cup
          {[id |-> clock + 1, floorId |-> floorId, month |-> month,
            amountPaid |-> amount, paymentDate |-> clock + 1,
            remainingAmount |-> remainingAmount,
            isComplete |-> IsComplete(remainingAmount)]}
  /\ clock' = clock + 1
  /\ ui' = [ui EXCEPT ![s].pending = [NoPending EXCEPT !.phase = "added", !.delta = amount]]
  /\ last' = Idle
  /\ UNCHANGED <<pageVars, floors, required, events, eventPayments, expenses, balance>>

\* MaintenancePaymentModal.handlePaymentSubmit up to the resolved addDoc
EventAddDoc(limit, s, eventId, floorId, amount) ==
  LET m == ui[s]
      remainingAmount == getRemainingAmount(m, eventId, floorId)
  IN
  /\ m.modalType = "maintenance-payment"
  /\ ~Running(s)
  /\ \E e \in m.events : e.id = eventId
  /\ floorId \in 1..m.floors
  /\ ~EventRejected(amount, remainingAmount)
  /\ clock < limit
  /\ LET newRemainingAmount == JsSub(remainingAmount, amount)
     IN \E pos \in 0..Len(eventPayments) :
          eventPayments' = InsertAt(eventPayments, pos,
            [id |-> clock + 1, eventId |-> eventId, floorId |-> floorId,
             amountPaid |-> amount, paymentDate |-> clock + 1,
             remainingAmount |-> newRemainingAmount,
             isComplete |-> IsComplete(newRemainingAmount)])
  /\ clock' = clock + 1
  /\ ui' = [ui EXCEPT ![s].pending = [NoPending EXCEPT !.phase = "added", !.delta = amount]]
  /\ last' = Idle
  /\ UNCHANGED <<pageVars, floors, required, events, monthlyPayments, expenses, balance>>

\* ExpenseModal.handleExpenseSubmit up to the resolved addDoc
ExpenseAddDoc(limit, s) ==
  LET m == ui[s] IN
  /\ m.modalType = "expense"
  /\ m.step = "review"
  /\ ~Running(s)
  /\ clock < limit
  /\ expenses' = expenses \cup
       {[id |-> clock + 1, type |-> m.expenseType,
         eventId |-> ExpenseEventId(m.expenseType, m.selectedEvent),
         amount |-> m.amount]}
  /\ clock' = clock + 1
  /\ ui' = [ui EXCEPT ![s].pending = [NoPending EXCEPT !.phase = "added", !.delta = ExpenseDelta(m.expenseType, m.amount)]]
  /\ last' = Idle
  /\ UNCHANGED <<pageVars, floors, required, events, monthlyPayments, eventPayments, balance>>

\* const balanceDoc = await getDoc(doc(db, "system", "balance"))
BalanceGet(s) ==
  /\ ui[s].pending.phase = "added"
  /\ ui' = [ui EXCEPT ![s].pending.phase = "read", ![s].pending.read = balance]
  /\ last' = Idle
  /\ UNCHANGED <<pageVars, dbVars, clock>>

\* variant of NewTotalBalance that adds to the balance the store holds at the write
NewTotalBalanceIncrement(readBalance, storedBalance, delta) == storedBalance + delta

\* totalBalance: currentBalance + amount, currentBalance being the value read
NewTotalBalance(readBalance, storedBalance, delta) == readBalance + delta

\* if (balanceDoc.exists()) await updateDoc(...); then the form resets and onClose()
BalanceUpdate(s) ==
  LET pd == ui[s].pending IN
  /\ pd.phase = "read"
  /\ balance' = IF pd.read.exists
                THEN WriteBalance(NewTotalBalance(pd.read.totalBalance,
                                                  balance.totalBalance, pd.delta))
                ELSE balance
  /\ ui' = [ui EXCEPT ![s] = Unmounted]
  /\ last' = [Idle EXCEPT !.op = "balanceUpdate", !.ok = pd.read.exists,
                 !.amount = pd.delta, !.old = pd.read.totalBalance,
                 !.bal = balance.totalBalance]
  /\ UNCHANGED <<pageVars, floors, required, events, monthlyPayments, eventPayments, expenses, clock>>

\* the month the date picker shows when the modal opens (new Date())
CurrentMonth == CHOOSE mo \in Months : \A other \in Months : mo <= other

\* Two admin sessions recording monthly payments and expenses.
ConcurrentStep(s) ==
  \/ \E m \in {"monthly-payment", "expense"} : handleActionClick(s, m)
  \/ ~Running(s) /\ closeModal(s)
  \/ \E f \in 1..MaxFloors, a \in AmountInputs :
       MonthlyAddDoc(MaxClock + 1, s, f, CurrentMonth, a)
  \/ \E t \in ExpenseTypes : handleTypeSelect(s, t)
  \/ \E a \in AmountInputs : ~Running(s) /\ ExpenseDetailsSubmit(s, 0, a)
  \/ ~Running(s) /\ ExpenseBack(s)
  \/ ExpenseAddDoc(MaxClock + 1, s)
  \/ BalanceGet(s)
  \/ BalanceUpdate(s)

NextConcurrent == \E s \in Sessions : ConcurrentStep(s)

SpecConcurrent == Init /\ [][NextConcurrent]_vars

\* C11: with two admin sessions, a payment submission whose write of the
\* balance lands after another submission's write, both having read the same
\* balance, leaves totalBalance at the value it read plus its own amount: both
\* records are persisted and the other submission's credit is lost.
C11_LostUpdate ==
  (last.op = "balanceUpdate" /\ last.ok /\ last.amount > 0) =>
    /\ balance.totalBalance = last.old + last.amount
    /\ (last.bal # last.old => balance.totalBalance # last.bal + last.amount)

C11_Witness ==
  /\ last.op = "balanceUpdate"
  /\ last.ok
  /\ last.amount > 0
  /\ last.bal > last.old
  /\ Cardinality(monthlyPayments) = 2
  /\ expenses = {}
  /\ \A s \in Sessions : ~Running(s)
  /\ balance.totalBalance = LiveCredit - (last.bal - last.old)

\* the submissions the handlers validate
ValidatedOps == {"monthlyPayment", "eventPayment", "expenseDetails",
                 "newEventDetails", "saveEvent", "savePayment"}

\* the submission h has a missing field, a non-positive amount (0 stands for
\* every non-numeric input too) or an amount above its ceiling
FailsValidation(h) ==
  \/ ~h.complete
  \/ h.amount <= 0
  \/ h.op \in {"monthlyPayment", "eventPayment", "expenseDetails"} /\ h.amount > h.used

\* C12: a payment, expense, event-create, event-edit or payment-edit submission
\* that fails validation (missing field, non-positive amount, amount above the
\* remaining-due or available-balance ceiling) creates, updates and deletes no
\* record and leaves totalBalance unchanged.
C12_ValidationMutatesNothing ==
  [][(last'.op \in ValidatedOps /\ FailsValidation(last')) => UNCHANGED dbVars]_vars

C12_Witness ==
  /\ last.op = "monthlyPayment"
  /\ last.amount > last.used
  /\ last.n > 0
  /\ ~last.ok
  /\ balance.totalBalance = last.bal

\* ------------------------------- MaintenancePaymentModal, step by step
handleEventSelect(s, eventId) ==
  /\ ui[s].modalType = "maintenance-payment"
  /\ ui[s].step = "select-event"
  /\ \E e \in ui[s].events : e.id = eventId
  /\ ui' = [ui EXCEPT ![s].selectedEvent = eventId]
  /\ last' = Idle
  /\ UNCHANGED <<pageVars, dbVars, clock>>

proceedToFloorSelection(s) ==
  /\ ui[s].modalType = "maintenance-payment"
  /\ ui[s].step = "select-event"
  /\ ui' = IF ui[s].selectedEvent = 0 THEN ui
           ELSE [ui EXCEPT ![s].step = "select-floor"]
  /\ last' = Idle
  /\ UNCHANGED <<pageVars, dbVars, clock>>

\* the floor button is disabled when remaining <= 0 for the selected event
handleFloorSelect(s, floorId) ==
  /\ ui[s].modalType = "maintenance-payment"
  /\ ui[s].step = "select-floor"
  /\ floorId \in 1..ui[s].floors
  /\ getRemainingAmount(ui[s], ui[s].selectedEvent, floorId) > 0
  /\ ui' = [ui EXCEPT ![s].selectedFloor = floorId]
  /\ last' = Idle
  /\ UNCHANGED <<pageVars, dbVars, clock>>

proceedToPayment(s) ==
  /\ ui[s].modalType = "maintenance-payment"
  /\ ui[s].step = "select-floor"
  /\ ui' = IF ui[s].selectedFloor = 0 THEN ui
           ELSE [ui EXCEPT ![s].step = "enter-payment"]
  /\ last' = Idle
  /\ UNCHANGED <<pageVars, dbVars, clock>>

\* the "back" buttons: enter-payment -> select-floor -> select-event
PaymentBack(s) ==
  /\ ui[s].modalType = "maintenance-payment"
  /\ ui[s].step \in {"select-floor", "enter-payment"}
  /\ ui' = [ui EXCEPT ![s].step = IF @ = "enter-payment" THEN "select-floor"
                                  ELSE "select-event"]
  /\ last' = Idle
  /\ UNCHANGED <<pageVars, dbVars, clock>>

\* the submit button of the enter-payment step
PaymentStepSubmit(s, amount) ==
  /\ ui[s].step = "enter-payment"
  /\ EventPaymentSubmit(s, ui[s].selectedEvent, ui[s].selectedFloor, amount)

\* One session that creates events and walks the steps of the event payment modal.
PaymentFlowStep(s) ==
  \/ \E m \in {"new-maintenance", "maintenance-payment"} : handleActionClick(s, m)
  \/ closeModal(s)
  \/ \E c \in CostInputs : NewEventDetailsSubmit(s, c)
  \/ NewEventBack(s)
  \/ handleCreateEvent(s)
  \/ \E e \in EventIds : handleEventSelect(s, e)
  \/ proceedToFloorSelection(s)
  \/ \E f \in 1..MaxFloors : handleFloorSelect(s, f)
  \/ proceedToPayment(s)
  \/ PaymentBack(s)
  \/ \E a \in AmountInputs : PaymentStepSubmit(s, a)

NextPaymentFlow == \E s \in SeqSessions : PaymentFlowStep(s)

SpecPaymentFlow == Init /\ [][NextPaymentFlow]_vars

C14_ExpenseDebit ==
  [][last'.op = "expense" =>
       /\ \E x \in expenses' \ expenses :
            /\ expenses' = expenses \cup {x}
            /\ x.amount = last'.amount
            /\ x.type \in ExpenseTypes
            /\ balance'.totalBalance = balance.totalBalance - x.amount
       /\ monthlyPayments' = monthlyPayments
       /\ eventPayments' = eventPayments
       /\ events' = events]_vars

C14_Witness ==
  /\ last.op = "expense"
  /\ \E x \in expenses : x.id = last.id /\ x.type = "event" /\ x.eventId # 0
  /\ last.amount > 0
  /\ monthlyPayments # {}
  /\ balance.totalBalance = last.bal - last.amount

\* C15: the expense ceiling is checked against the balance the modal read when
\* it loaded (an expense under review never exceeds that value), while the
\* debit is applied to the balance re-read at write time; with two sessions
\* each expense passes validation and totalBalance can end below 0.
C15_StaleCeiling ==
  /\ \A s \in Sessions :
       (ui[s].modalType = "expense" /\ ui[s].step = "review") =>
         (0 < ui[s].amount /\ ui[s].amount <= ui[s].financialData)
  /\ (last.op = "balanceUpdate" /\ last.ok /\ last.amount < 0) =>
       balance.totalBalance = last.old + last.amount

C15_Witness ==
  /\ last.op = "balanceUpdate"
  /\ last.ok
  /\ last.amount < 0
  /\ Cardinality(expenses) = 2
  /\ \A s \in Sessions : ~Running(s)
  /\ balance.totalBalance < 0
  /\ balance.totalBalance = LiveCredit - LiveDebit

\* ------------------------------------------------- store failures
\* variant of BalanceAfterFailure in which the catch block applies the credit
BalanceAfterFailureCompensated(storedBalance, delta) ==
  [storedBalance EXCEPT !.totalBalance = @ + delta]

\* catch (err) { setError(...); setLoading(false); }: the balance document keeps
\* what the store holds
BalanceAfterFailure(storedBalance, delta) == storedBalance

\* getDoc or updateDoc of system/balance rejects after addDoc has resolved; the
\* catch block reports the error and the modal stays open
StoreFails(s) ==
  /\ Running(s)
  /\ balance' = BalanceAfterFailure(balance, ui[s].pending.delta)
  /\ ui' = [ui EXCEPT ![s].pending = NoPending]
  /\ last' = [Idle EXCEPT !.op = "storeFailure", !.id = clock,
                 !.amount = ui[s].pending.delta, !.bal = balance.totalBalance]
  /\ UNCHANGED <<pageVars, floors, required, events, monthlyPayments, eventPayments, expenses, clock>>

\* One session recording monthly and event payments on a store that may fail
\* between the awaits of the submit handler.
PaymentFailureStep(s) ==
  \/ \E m \in {"monthly-payment", "new-maintenance", "maintenance-payment"} :
       handleActionClick(s, m)
  \/ ~Running(s) /\ closeModal(s)
  \/ \E c \in CostInputs : NewEventDetailsSubmit(s, c)
  \/ NewEventBack(s)
  \/ handleCreateEvent(s)
  \/ \E f \in 1..MaxFloors, a \in AmountInputs :
       MonthlyAddDoc(MaxClock, s, f, CurrentMonth, a)
  \/ \E e \in EventIds, f \in 1..MaxFloors, a \in AmountInputs :
       EventAddDoc(MaxClock, s, e, f, a)
  \/ BalanceGet(s)
  \/ BalanceUpdate(s)
  \/ StoreFails(s)

NextPaymentFailure == \E s \in SeqSessions : PaymentFailureStep(s)

SpecPaymentFailure == Init /\ [][NextPaymentFailure]_vars

\* the credits of the submit handlers that are still between their awaits
RECURSIVE InFlight(_)
InFlight(S) ==
  IF S = {} THEN 0
  ELSE LET s == CHOOSE t \in S : TRUE IN ui[s].pending.delta + InFlight(S \ {s})

\* the amount by which totalBalance falls short of the payments on record,
\* the credits of the handlers still running set aside
Understated == LiveCredit - balance.totalBalance - InFlight(Sessions)

\* C16: when the store fails after a monthly or event payment record is
\* persisted and before the balance update is written, the record stays
\* persisted and totalBalance is unchanged; no later step of the program
\* makes up the amount by which the balance is understated.
C16_NoCompensation ==
  /\ [](last.op = "storeFailure" =>
          /\ \E p \in AllPayments : p.id = last.id /\ p.amountPaid = last.amount
          /\ balance.totalBalance = last.bal)
  /\ [][Understated' >= Understated]_vars

C16_Witness ==
  /\ last.op = "balanceUpdate"
  /\ last.ok
  /\ Understated > 0
  /\ \E p \in SeqToSet(eventPayments) : p.id # last.id
  /\ monthlyPayments # {}
  /\ \A s \in Sessions : ~Running(s)

\* ------------------------------- ManagePaymentsModal on a failing store
\* variant of BalanceAfterFailedBatch in which the balance write of a rejected
\* batch is applied on its own
BalanceAfterFailedBatchPartial(storedBalance, newBalance) == newBalance

\* a rejected writeBatch applies none of its writes
BalanceAfterFailedBatch(storedBalance, newBalance) == storedBalance

\* savePayment when getDoc(balanceRef) or batch.commit() rejects
savePaymentStoreFails(s, amount, month) ==
  LET m == ui[s]
      id == m.editingPaymentId
      found == \E p \in m.payments : p.id = id
      paymentToEdit == IF found THEN CHOOSE p \in m.payments : p.id = id ELSE NoPayment
  IN
  /\ m.modalType = "manage-payments"
  /\ id # 0
  /\ amount > 0
  /\ found
  /\ balance' = BalanceAfterFailedBatch(balance,
                  WriteBalance(ReadBalance + BalanceChange(amount, paymentToEdit)))
  /\ last' = [Idle EXCEPT !.op = "savePayment", !.id = id, !.amount = amount,
                 !.old = StoredAmountPaid(id), !.used = paymentToEdit.originalAmount,
                 !.bal = balance.totalBalance]
  /\ UNCHANGED <<pageVars, floors, required, events, monthlyPayments, eventPayments, expenses, clock, ui>>

\* savePayment when the batch commits and the reload after it fails: loadPayments
\* and loadFinancialData catch the error, the lists keep what they showed
savePaymentReloadFails(s, amount, month) ==
  LET m == ui[s]
      id == m.editingPaymentId
      found == \E p \in m.payments : p.id = id
      paymentToEdit == IF found THEN CHOOSE p \in m.payments : p.id = id ELSE NoPayment
  IN
  /\ m.modalType = "manage-payments"
  /\ id # 0
  /\ amount > 0
  /\ found
  /\ \E p \in AllPayments : p.id = id
  /\ balance.exists
  /\ monthlyPayments' =
       {IF p.id = id THEN [p EXCEPT !.amountPaid = amount, !.month = month] ELSE p
          : p \in monthlyPayments}
  /\ eventPayments' =
       [i \in 1..Len(eventPayments) |->
          IF eventPayments[i].id = id
          THEN [eventPayments[i] EXCEPT !.amountPaid = amount]
          ELSE eventPayments[i]]
  /\ balance' = WriteBalance(ReadBalance + BalanceChange(amount, paymentToEdit))
  /\ ui' = [ui EXCEPT ![s].editingPaymentId = 0]
  /\ last' = [Idle EXCEPT !.op = "savePayment", !.ok = TRUE, !.id = id, !.amount = amount,
                 !.old = StoredAmountPaid(id), !.used = paymentToEdit.originalAmount,
                 !.bal = balance.totalBalance]
  /\ UNCHANGED <<pageVars, floors, required, events, expenses, clock>>

\* deletePayment when getDoc(balanceRef) or batch.commit() rejects
deletePaymentStoreFails(s) ==
  LET m == ui[s]
      id == m.deleteConfirmPayment.id
  IN
  /\ m.modalType = "manage-payments"
  /\ m.deleteConfirmPayment # NoPayment
  /\ balance' = BalanceAfterFailedBatch(balance,
                  WriteBalance(ReadBalance - m.deleteConfirmPayment.amountPaid))
  /\ last' = [Idle EXCEPT !.op = "deletePayment", !.id = id,
                 !.old = StoredAmountPaid(id),
                 !.used = m.deleteConfirmPayment.amountPaid,
                 !.bal = balance.totalBalance]
  /\ UNCHANGED <<pageVars, floors, required, events, monthlyPayments, eventPayments, expenses, clock, ui>>

\* deletePayment when the batch commits and the reload after it fails
deletePaymentReloadFails(s) ==
  LET m == ui[s]
      id == m.deleteConfirmPayment.id
  IN
  /\ m.modalType = "manage-payments"
  /\ m.deleteConfirmPayment # NoPayment
  /\ balance.exists
  /\ monthlyPayments' = {p \in monthlyPayments : p.id # id}
  /\ eventPayments' = SelectSeq(eventPayments, LAMBDA p : p.id # id)
  /\ balance' = WriteBalance(ReadBalance - m.deleteConfirmPayment.amountPaid)
  /\ ui' = [ui EXCEPT ![s].deleteConfirmPayment = NoPayment]
  /\ last' = [Idle EXCEPT !.op = "deletePayment", !.ok = TRUE, !.id = id,
                 !.old = StoredAmountPaid(id),
                 !.used = m.deleteConfirmPayment.amountPaid,
                 !.bal = balance.totalBalance]
  /\ UNCHANGED <<pageVars, floors, required, events, expenses, clock>>

\* the runs stop writing from a stale list once the balance has left this range
BalanceInRange == balance.totalBalance \in 0..MaxAmount

\* One session that records monthly payments and edits and deletes them on a
\* store that may fail.
BatchFailureStep(s) ==
  \/ \E m \in {"monthly-payment", "manage-payments"} : handleActionClick(s, m)
  \/ closeModal(s)
  \/ \E f \in 1..MaxFloors, a \in AmountInputs :
       MonthlyPaymentSubmit(s, f, CurrentMonth, a)
  \/ \E p \in DocIds : StartEditingPayment(s, p)
  \/ CancelEditingPayment(s)
  \/ \E a \in AmountInputs : savePayment(s, a, CurrentMonth)
  \/ \E a \in AmountInputs : savePaymentStoreFails(s, a, CurrentMonth)
  \/ \E a \in AmountInputs :
       BalanceInRange /\ savePaymentReloadFails(s, a, CurrentMonth)
  \/ \E p \in DocIds : confirmDelete(s, p)
  \/ cancelDelete(s)
  \/ deletePayment(s)
  \/ deletePaymentStoreFails(s)
  \/ BalanceInRange /\ deletePaymentReloadFails(s)

NextBatchFailure == \E s \in SeqSessions : BatchFailureStep(s)

SpecBatchFailure == Init /\ [][NextBatchFailure]_vars

\* C17: a payment edit or a payment delete, a store failure during it included,
\* shows either both its record change and its totalBalance change or neither.
C17_BatchAtomic ==
  [][/\ last'.op = "savePayment" =>
          \/ UNCHANGED dbVars
          \/ /\ \E p \in AllPayments' : p.id = last'.id /\ p.amountPaid = last'.amount
             /\ balance'.totalBalance = balance.totalBalance + (last'.amount - last'.used)
     /\ last'.op = "deletePayment" =>
          \/ UNCHANGED dbVars
          \/ /\ ~(\E p \in AllPayments' : p.id = last'.id)
             /\ balance'.totalBalance = balance.totalBalance - last'.used]_vars

C17_Witness ==
  /\ last.op = "savePayment"
  /\ ~last.ok
  /\ last.amount > 0
  /\ last.amount # last.old
  /\ StoredAmountPaid(last.id) = last.old
  /\ last.old > 0
  /\ balance.totalBalance = last.bal

\* ------------------------------------------ deleteEvent, await by await
\* variant of BalanceWhileDeleting in which the balance is written before the deletes
BalanceWhileDeletingWrittenFirst(storedBalance, newBalance) ==
  [storedBalance EXCEPT !.totalBalance = newBalance]

\* what system/balance holds once newBalance is computed and the deletes start
BalanceWhileDeleting(storedBalance, newBalance) == storedBalance

\* deleteEvent up to const newBalance = ...: the two queries and the getDoc of
\* system/balance; pending.delta is newBalance - currentBalance
deleteEventRead(s) ==
  LET m == ui[s]
      id == m.deleteConfirmEvent
      newBalance == DeleteEventBalance(ReadBalance, SumAmountPaid(PaymentsOfEvent(id)),
                                       SumAmount(ExpensesOfEvent(id)))
  IN
  /\ m.modalType = "manage-maintenance"
  /\ id # 0
  /\ ~Running(s)
  /\ balance' = BalanceWhileDeleting(balance, newBalance)
  /\ ui' = [ui EXCEPT ![s].pending = [phase |-> "sums-read",
                                       delta |-> newBalance - ReadBalance,
                                       read |-> balance]]
  /\ last' = Idle
  /\ UNCHANGED <<pageVars, floors, required, events, monthlyPayments, eventPayments, expenses, clock>>

\* one deleteDoc of Promise.all([...deletePaymentPromises, ...deleteExpensePromises])
deleteEventDeleteRecord(s) ==
  LET id == ui[s].deleteConfirmEvent IN
  /\ ui[s].pending.phase = "sums-read"
  /\ \/ \E p \in PaymentsOfEvent(id) :
          /\ eventPayments' = SelectSeq(eventPayments, LAMBDA q : q.id # p.id)
          /\ expenses' = expenses
     \/ \E x \in ExpensesOfEvent(id) :
          /\ expenses' = expenses \ {x}
          /\ eventPayments' = eventPayments
  /\ last' = Idle
  /\ UNCHANGED <<pageVars, floors, required, events, monthlyPayments, balance, clock, ui>>

\* await deleteDoc(doc(db, "events", deleteConfirmEvent)), once Promise.all resolved
deleteEventDeleteEvent(s) ==
  LET id == ui[s].deleteConfirmEvent IN
  /\ ui[s].pending.phase = "sums-read"
  /\ PaymentsOfEvent(id) = {}
  /\ ExpensesOfEvent(id) = {}
  /\ events' = {e \in events : e.id # id}
  /\ ui' = [ui EXCEPT ![s].pending.phase = "event-deleted"]
  /\ last' = Idle
  /\ UNCHANGED <<pageVars, floors, required, monthlyPayments, eventPayments, expenses, balance, clock>>

\* await updateDoc(doc(db, "system", "balance"), {totalBalance: newBalance}),
\* then loadEvents and setDeleteConfirmEvent(null)
deleteEventWriteBalance(s) ==
  LET pd == ui[s].pending IN
  /\ pd.phase = "event-deleted"
  /\ balance.exists
  /\ balance' = WriteBalance(pd.read.totalBalance + pd.delta)
  /\ ui' = [ui EXCEPT ![s].events = events, ![s].deleteConfirmEvent = 0,
                      ![s].pending = NoPending]
  /\ last' = [Idle EXCEPT !.op = "deleteEvent", !.ok = TRUE,
                 !.id = ui[s].deleteConfirmEvent, !.amount = pd.delta,
                 !.old = pd.read.totalBalance, !.bal = balance.totalBalance]
  /\ UNCHANGED <<pageVars, floors, required, events, monthlyPayments, eventPayments, expenses, clock>>

\* One session that creates events, records event payments and event expenses
\* and deletes events on a store that may fail between the awaits of deleteEvent.
DeleteEventFailureStep(s) ==
  \/ \E m \in {"new-maintenance", "maintenance-payment", "expense", "manage-maintenance"} :
       handleActionClick(s, m)
  \/ ~Running(s) /\ closeModal(s)
  \/ \E c \in CostInputs : NewEventDetailsSubmit(s, c)
  \/ NewEventBack(s)
  \/ handleCreateEvent(s)
  \/ \E e \in EventIds, f \in 1..MaxFloors, a \in AmountInputs :
       EventPaymentSubmit(s, e, f, a)
  \/ handleTypeSelect(s, "event")
  \/ \E e \in EventIds, a \in AmountInputs : ExpenseDetailsSubmit(s, e, a)
  \/ ExpenseBack(s)
  \/ handleExpenseSubmit(s)
  \/ \E e \in EventIds : ~Running(s) /\ ConfirmDeleteEvent(s, e)
  \/ ~Running(s) /\ CancelDeleteEvent(s)
  \/ deleteEventRead(s)
  \/ deleteEventDeleteRecord(s)
  \/ deleteEventDeleteEvent(s)
  \/ deleteEventWriteBalance(s)
  \/ StoreFails(s)

NextDeleteEventFailure == \E s \in SeqSessions : DeleteEventFailureStep(s)

SpecDeleteEventFailure == Init /\ [][NextDeleteEventFailure]_vars

\* C18: deleteEvent reads the event's payment sum, expense sum and the balance
\* before any delete, deletes the payment and expense records, then the event
\* record, and writes the balance last: while the handler deletes, the stored
\* balance is the one it read; a record or event delete leaves the balance; the
\* event goes only when none of its records is left; and the balance write, the
\* last step, adds the adjustment computed from the sums read before the deletes.
C18_DeleteOrdering ==
  /\ [](\A s \in Sessions :
          ui[s].pending.phase \in {"sums-read", "event-deleted"} =>
            balance = ui[s].pending.read)
  /\ [](\A s \in Sessions :
          ui[s].pending.phase = "event-deleted" =>
            /\ ~(\E e \in events : e.id = ui[s].deleteConfirmEvent)
            /\ PaymentsOfEvent(ui[s].deleteConfirmEvent) = {}
            /\ ExpensesOfEvent(ui[s].deleteConfirmEvent) = {})
  /\ [][\A e \in events \ events' :
          /\ PaymentsOfEvent(e.id) = {}
          /\ ExpensesOfEvent(e.id) = {}
          /\ UNCHANGED <<balance, eventPayments, expenses>>]_vars
  /\ [][(Len(eventPayments') < Len(eventPayments)
         \/ Cardinality(expenses') < Cardinality(expenses)) =>
          UNCHANGED <<balance, events>>]_vars
  /\ [][last'.op = "deleteEvent" =>
          /\ balance'.totalBalance = balance.totalBalance + last'.amount
          /\ UNCHANGED <<events, eventPayments, expenses>>]_vars

C18_Witness ==
  /\ last.op = "storeFailure"
  /\ \E s \in Sessions :
       /\ ui[s].modalType = "manage-maintenance"
       /\ ui[s].deleteConfirmEvent # 0
       /\ \E e \in events : e.id = ui[s].deleteConfirmEvent
       /\ PaymentsOfEvent(ui[s].deleteConfirmEvent) = {}
       /\ ExpensesOfEvent(ui[s].deleteConfirmEvent) # {}
  /\ clock = MaxClock
  /\ balance.totalBalance = last.bal
  /\ balance.totalBalance # LiveCredit - LiveDebit

\* the records of (eventId, floorId) among the payments a modal has loaded
LoadedKey(m, eventId, floorId) ==
  {p \in SeqToSet(m.existingPayments) : p.eventId = eventId /\ p.floorId = floorId}

\* C19: for an (event, floor) key with payment records, the remaining amount
\* the event payment modal computes is the remainingAmount of the most recently
\* written record of the key, whatever the order the store returned them in.
C19_RemainingIsLatest ==
  \A s \in Sessions :
    ui[s].modalType = "maintenance-payment" =>
      \A e \in ui[s].events, f \in 1..ui[s].floors :
        LoadedKey(ui[s], e.id, f) # {} =>
          getRemainingAmount(ui[s], e.id, f)
            = Latest(LoadedKey(ui[s], e.id, f)).remainingAmount

\* ------------------------------------- system/balance does not exist
\* a store in which system/balance was never created
InitMissingBalance ==
  /\ floors \in FloorCounts
  /\ required = MaxAmount
  /\ events = {}
  /\ monthlyPayments = {}
  /\ eventPayments = << >>
  /\ expenses = {}
  /\ balance = [exists |-> FALSE, totalBalance |-> 0]
  /\ clock = 0
  /\ ui = [s \in Sessions |-> Unmounted]
  /\ last = Idle
  /\ dashboard = DashboardUnloaded
  /\ guard = GuardUnchecked

\* One session on that store.  The expense modal loads a balance of 0 and
\* refuses every amount, so it records nothing here and is left out.
MissingBalanceStep(s) ==
  \/ \E m \in ModalTypes \ {"expense"} : handleActionClick(s, m)
  \/ closeModal(s)
  \/ \E f \in 1..MaxFloors, a \in AmountInputs :
       MonthlyPaymentSubmit(s, f, CurrentMonth, a)
  \/ \E e \in EventIds, f \in 1..MaxFloors, a \in AmountInputs :
       EventPaymentSubmit(s, e, f, a)
  \/ \E c \in CostInputs : NewEventDetailsSubmit(s, c)
  \/ NewEventBack(s)
  \/ handleCreateEvent(s)
  \/ \E e \in EventIds : ConfirmDeleteEvent(s, e)
  \/ CancelDeleteEvent(s)
  \/ deleteEvent(s)
  \/ \E p \in DocIds : StartEditingPayment(s, p)
  \/ CancelEditingPayment(s)
  \/ \E a \in AmountInputs : savePayment(s, a, CurrentMonth)
  \/ \E p \in DocIds : confirmDelete(s, p)
  \/ cancelDelete(s)
  \/ deletePayment(s)

NextMissingBalance == \E s \in SeqSessions : MissingBalanceStep(s)

SpecMissingBalance == InitMissingBalance /\ [][NextMissingBalance]_vars

\* the operations that move money
LedgerOps == {"monthlyPayment", "eventPayment", "expense",
              "savePayment", "deletePayment", "deleteEvent"}

\* C20: when the balance document does not exist, a ledger operation either
\* treats the balance as 0 and writes 0 plus its delta, or fails and leaves
\* every record as it was (none created, changed or deleted).
C20_MissingBalance ==
  [][(~balance.exists /\ last'.op \in LedgerOps) =>
       \/ UNCHANGED <<events, monthlyPayments, eventPayments, expenses>>
       \/ /\ balance'.exists
          /\ balance'.totalBalance =
               (LiveCredit' - LiveDebit') - (LiveCredit - LiveDebit)]_vars

\* --------------------------- two sessions in ManagePaymentsModal
\* Two admin sessions that record one monthly payment and edit and delete it.
\* A stale list lets the balance drift without limit: the runs stop editing and
\* deleting once it has left BalanceInRange.
ConcurrentEditStep(s) ==
  \/ \E m \in {"monthly-payment", "manage-payments"} : handleActionClick(s, m)
  \/ closeModal(s)
  \/ \E a \in AmountInputs :
       clock = 0 /\ MonthlyPaymentSubmit(s, 1, CurrentMonth, a)
  \/ \E p \in DocIds : StartEditingPayment(s, p)
  \/ CancelEditingPayment(s)
  \/ \E a \in AmountInputs : BalanceInRange /\ savePayment(s, a, CurrentMonth)
  \/ \E p \in DocIds : confirmDelete(s, p)
  \/ cancelDelete(s)
  \/ BalanceInRange /\ deletePayment(s)

NextConcurrentEdit == \E s \in Sessions : ConcurrentEditStep(s)

SpecConcurrentEdit == Init /\ [][NextConcurrentEdit]_vars

\* C21: with two admin sessions, every payment edit changes totalBalance by the
\* new amount minus the amountPaid the store held for the record right before
\* the edit committed, and every payment delete lowers totalBalance by the
\* amountPaid the store held at the commit, whatever the interleaving of the
\* two sessions' edits and deletes of the same record.
C21_DeltaAgainstPersisted ==
  [][/\ (last'.op = "savePayment" /\ last'.ok) =>
          balance'.totalBalance - balance.totalBalance
            = last'.amount - StoredAmountPaid(last'.id)
     /\ (last'.op = "deletePayment" /\ last'.ok) =>
          balance.totalBalance - balance'.totalBalance
            = StoredAmountPaid(last'.id)]_vars

\* C22: recording a monthly or an event payment adds exactly one new payment
\* record, changes no field of a payment record that existed before, and raises
\* totalBalance by exactly the amount paid.
C22_PaymentCreateFrame ==
  [][(last'.op \in {"monthlyPayment", "eventPayment"} /\ last'.ok) =>
       /\ \E p \in AllPayments' \ AllPayments :
            /\ AllPayments' = AllPayments \cup {p}
            /\ p.amountPaid = last'.amount
            /\ \A q \in AllPayments : q.id # p.id
       /\ Cardinality(monthlyPayments') + Len(eventPayments')
            = Cardinality(monthlyPayments) + Len(eventPayments) + 1
       /\ \A i \in 1..Len(eventPayments) :
            \E j \in 1..Len(eventPayments') : eventPayments'[j] = eventPayments[i]
       /\ balance'.totalBalance = balance.totalBalance + last'.amount
       /\ UNCHANGED <<events, expenses>>]_vars

C22_Witness ==
  /\ last.op = "eventPayment"
  /\ last.ok
  /\ last.n = 1
  /\ Len(eventPayments) = 2
  /\ balance.totalBalance = last.bal + last.amount
  /\ balance.totalBalance = LiveCredit

onEventsSnapshot ==
  /\ dashboard.eventsSnapshot # [arrived |-> TRUE, docs |-> events]
  /\ dashboard' =
       [dashboard EXCEPT
          !.eventsSnapshot = [arrived |-> TRUE, docs |-> events],
          !.maintenanceEvents =
             {[id |-> e.id, totalCost |-> e.totalCost, collectedAmount |-> Undefined]
                : e \in events}]
  /\ last' = Idle
  /\ UNCHANGED <<dbVars, clock, ui, guard>>

\* filter(eventId === event.id).reduce(sum + (amountPaid || 0), 0)
eventCollected(docs, eventId) ==
  SumAmountPaid({p \in SeqToSet(docs) : p.eventId = eventId})

\* onSnapshot(collection(db, "eventPayments"), ...): setMaintenanceEvents((prev) =>
\* prev.map((event) => ({...event, collectedAmount: eventCollected})))
onEventPaymentsSnapshot ==
  /\ dashboard.paymentsSnapshot # [arrived |-> TRUE, docs |-> eventPayments]
  /\ dashboard' =
       [dashboard EXCEPT
          !.paymentsSnapshot = [arrived |-> TRUE, docs |-> eventPayments],
          !.maintenanceEvents =
             {[e EXCEPT !.collectedAmount = eventCollected(eventPayments, e.id)]
                : e \in dashboard.maintenanceEvents}]
  /\ last' = Idle
  /\ UNCHANGED <<dbVars, clock, ui, guard>>

\* (event.collectedAmount || 0), as the dashboard displays it
CollectedOrZero(collectedAmount) ==
  IF collectedAmount = Undefined THEN 0 ELSE collectedAmount

\* One session that creates events and records event payments while the
\* dashboard's two listeners deliver their snapshots in any order.
DashboardStep(s) ==
  \/ \E m \in {"new-maintenance", "maintenance-payment"} : handleActionClick(s, m)
  \/ closeModal(s)
  \/ \E c \in CostInputs : NewEventDetailsSubmit(s, c)
  \/ handleCreateEvent(s)
  \/ \E e \in EventIds, a \in AmountInputs : EventPaymentSubmit(s, e, 1, a)

NextDashboard ==
  \/ \E s \in SeqSessions : DashboardStep(s)
  \/ onEventsSnapshot
  \/ onEventPaymentsSnapshot

SpecDashboard == Init /\ [][NextDashboard]_vars

\* C24: once both listeners have delivered, whatever the order of arrival of
\* the events and eventPayments snapshots, every listed event's collectedAmount
\* (a missing one read as 0) equals the sum of amountPaid over the payment
\* records of that event in the latest eventPayments snapshot.
C24_CollectedAmount ==
  (dashboard.eventsSnapshot.arrived /\ dashboard.paymentsSnapshot.arrived) =>
    \A e \in dashboard.maintenanceEvents :
      CollectedOrZero(e.collectedAmount)
        = eventCollected(dashboard.paymentsSnapshot.docs, e.id)

\* ------------------------------ two sessions, one of them deleting events
\* Two admin sessions that create events, record event payments for floor 1
\* and delete events.
ConcurrentDeleteStep(s) ==
  \/ \E m \in {"new-maintenance", "maintenance-payment", "manage-maintenance"} :
       handleActionClick(s, m)
  \/ closeModal(s)
  \/ \E c \in CostInputs : NewEventDetailsSubmit(s, c)
  \/ handleCreateEvent(s)
  \/ \E e \in EventIds, a \in AmountInputs : EventPaymentSubmit(s, e, 1, a)
  \/ \E e \in EventIds : ConfirmDeleteEvent(s, e)
  \/ CancelDeleteEvent(s)
  \/ deleteEvent(s)

NextConcurrentDelete == \E s \in Sessions : ConcurrentDeleteStep(s)

SpecConcurrentDelete == Init /\ [][NextConcurrentDelete]_vars

\* C25: with two admin sessions, no event payment and no event expense refers
\* to an event that is no longer in the store, a submission made by the other
\* session from a modal that loaded before the event was deleted included.
C25_NoRecordOfDeletedEvent ==
  /\ \A p \in SeqToSet(eventPayments) : \E e \in events : e.id = p.eventId
  /\ \A x \in expenses : x.type = "event" => \E e \in events : e.id = x.eventId

\* C26: every stored expense has an eventId exactly when its type is event: an
\* expense of type event under review has a selected event, and a monthly
\* expense is stored without eventId even when an event is selected in the form.
C26_EventIdIffEventType ==
  /\ \A x \in expenses : (x.eventId # 0) <=> (x.type = "event")
  /\ \A s \in Sessions :
       (ui[s].modalType = "expense" /\ ui[s].step = "review"
          /\ ui[s].expenseType = "event") => ui[s].selectedEvent # 0

C26_Witness ==
  /\ last.op = "expense"
  /\ last.sel # 0
  /\ \E x \in expenses : x.id = last.id /\ x.type = "monthly" /\ x.eventId = 0

\* C27: in every reachable state, after any sequence of payment creates, edits
\* and deletes, a payment record's isComplete is true exactly when the
\* remainingAmount stored on that same record is <= 0.
C27_IsCompleteMatchesRemaining ==
  \A p \in AllPayments : p.isComplete <=> (p.remainingAmount <= 0)

C27_Witness ==
  /\ last.op = "savePayment"
  /\ last.ok
  /\ last.amount # last.old
  /\ \E p \in AllPayments :
       p.id = last.id /\ p.isComplete /\ p.remainingAmount = 0 /\ p.amountPaid = last.amount
  /\ \E p \in AllPayments : ~p.isComplete /\ p.remainingAmount > 0

\* C28: in every reachable state every stored payment has amountPaid > 0 and
\* every stored expense has amount > 0; a payment, payment-edit or expense
\* submission with a non-positive amount (0 stands for every non-numeric, zero
\* and negative input) is refused.
C28_PositiveAmounts ==
  /\ \A p \in AllPayments : p.amountPaid > 0
  /\ \A x \in expenses : x.amount > 0
  /\ (last.op \in {"monthlyPayment", "eventPayment", "savePayment", "expenseDetails"}
        /\ last.amount <= 0) => ~last.ok

C28_Witness ==
  /\ last.op = "savePayment"
  /\ last.amount = 0
  /\ ~last.ok
  /\ StoredAmountPaid(last.id) > 0
  /\ expenses # {}

\* --------------------------------------------- useAuthGuard and AuthGuard
\* variant of AuthGuardRender that shows the children while the state is null
AuthGuardRenderOptimistic(isAuthenticated) ==
  IF isAuthenticated = "false" THEN "nothing" ELSE "children"

\* AuthGuard: the spinner while null, null (nothing) while false, else the children
AuthGuardRender(isAuthenticated) ==
  CASE isAuthenticated = "null" -> "spinner"
    [] isAuthenticated = "false" -> "nothing"
    [] isAuthenticated = "true" -> "children"

\* the hook state g with what AuthGuard returns for it (nothing once unmounted)
Rendered(g) ==
  [g EXCEPT !.rendered = IF g.mounted THEN AuthGuardRender(g.isAuthenticated)
                         ELSE "nothing"]

\* one run of the effect: a public path sets the state to true and subscribes
\* to nothing; a protected path subscribes with onAuthStateChanged
EffectRun(g) ==
  IF g.isPublicPath
  THEN [g EXCEPT !.effectRan = TRUE, !.isAuthenticated = "true", !.isMounted = FALSE]
  ELSE [g EXCEPT !.effectRan = TRUE, !.isMounted = TRUE]

\* the cleanup the previous effect run returned: isMounted = false; unsubscribe()
EffectCleanup(g) ==
  IF g.isMounted THEN [g EXCEPT !.isMounted = FALSE, !.stale = TRUE] ELSE g

\* the effect after the first render
useAuthGuardEffect ==
  /\ guard.mounted
  /\ ~guard.effectRan
  /\ guard' = Rendered(EffectRun(guard))
  /\ last' = Idle
  /\ UNCHANGED <<dbVars, clock, ui, dashboard>>

\* usePathname() returns a path on the other side of "/appointments/":
\* isPublicPath, a dependency of the effect, changes, the cleanup runs and the
\* effect runs again
PathnameChanges ==
  /\ guard.mounted
  /\ guard.effectRan
  /\ guard' = Rendered(EffectRun(
                 [EffectCleanup(guard) EXCEPT !.isPublicPath = ~guard.isPublicPath]))
  /\ last' = Idle
  /\ UNCHANGED <<dbVars, clock, ui, dashboard>>

\* AuthGuard unmounts: the cleanup of the last effect run
GuardUnmount ==
  /\ guard.mounted
  /\ guard.effectRan
  /\ guard' = Rendered([EffectCleanup(guard) EXCEPT !.mounted = FALSE])
  /\ last' = Idle
  /\ UNCHANGED <<dbVars, clock, ui, dashboard>>

\* variant of RefAfterRedirect that leaves the ref as it was
RefAfterRedirectUnset(isRedirecting) == isRedirecting

\* isRedirectingRef.current = true
RefAfterRedirect(isRedirecting) == TRUE

\* setIsAuthenticated(false); if (!isRedirectingRef.current) { ...; router.push() }
Unauthenticated(g) ==
  IF g.isRedirectingRef
  THEN [g EXCEPT !.isAuthenticated = "false"]
  ELSE [g EXCEPT !.isAuthenticated = "false",
                 !.isRedirectingRef = RefAfterRedirect(g.isRedirectingRef),
                 !.pushes = g.pushes + 1]

CallbackKinds == {"user", "no-user", "error"}

\* a callback of onAuthStateChanged: of the current subscription (current TRUE)
\* or of an earlier one, already cleaned up, whose callback was under way
AuthCallback(current, kind) ==
  /\ guard.callbacks < MaxCallbacks
  /\ IF current THEN guard.isMounted ELSE guard.stale
  /\ LET g == [guard EXCEPT !.callbacks = guard.callbacks + 1, !.callback = kind]
     IN guard' = Rendered(
          IF ~current THEN g                       \* if (!isMounted) return
          ELSE IF kind = "user" THEN [g EXCEPT !.isAuthenticated = "true"]
          ELSE Unauthenticated(g))
  /\ last' = Idle
  /\ UNCHANGED <<dbVars, clock, ui, dashboard>>

\* AuthGuard around the admin pages, with the callbacks of the auth service in
\* any order.
NextAuthGuard ==
  \/ useAuthGuardEffect
  \/ PathnameChanges
  \/ GuardUnmount
  \/ \E current \in BOOLEAN, kind \in CallbackKinds : AuthCallback(current, kind)

SpecAuthGuard == Init /\ [][NextAuthGuard]_vars

\* C29: AuthGuard renders its children only while the hook's state is true;
\* while it is still null or is false (no user, or an auth error) no protected
\* content is rendered, whatever the sequence of auth-state callbacks.
C29_ChildrenOnlyWhenAuthenticated ==
  /\ guard.rendered = "children" <=> (guard.mounted /\ guard.isAuthenticated = "true")
  /\ guard.isAuthenticated \in {"null", "false"} => guard.rendered \in {"spinner", "nothing"}

C29_Witness ==
  /\ guard.mounted
  /\ guard.isAuthenticated = "false"
  /\ guard.callback = "error"
  /\ guard.callbacks > 1
  /\ guard.rendered = "nothing"

\* C30: useAuthGuard calls router.push(redirectPath) at most once per hook
\* instance, whatever the sequence of "no user" and auth-error callbacks; a
\* step that pushes delivers one of these two callbacks to the mounted hook,
\* so none is issued by a callback that carries a user or after the unmount.
C30_RedirectOnce ==
  /\ [](guard.pushes <= 1)
  /\ [][guard'.pushes # guard.pushes =>
          /\ guard.mounted
          /\ guard.isMounted
          /\ ~guard.isRedirectingRef
          /\ guard'.callbacks = guard.callbacks + 1
          /\ guard'.callback \in {"no-user", "error"}]_vars
  /\ [][~guard.mounted => guard'.pushes = guard.pushes]_vars

C30_Witness ==
  /\ guard.pushes = 1
  /\ guard.callbacks = MaxCallbacks
  /\ guard.callback = "no-user"
  /\ guard.isMounted
  /\ guard.isAuthenticated = "false"
  /\ guard.stale

====
